---- MODULE Spec2Model ----
(***************************************************************************)
(* Model of the video classification tool (src/bruh.py): the render/input  *)
(* loop of main(), the mouse callback, the pointer-to-index mapping, the   *)
(* CSV log and the end-of-session summary.                                 *)
(*                                                                         *)
(* Python lists are modelled as functions over 0..n-1 so that indices keep *)
(* their Python values; Python's None is the empty tuple and an optional   *)
(* value v is <<v>>.                                                       *)
(***************************************************************************)
EXTENDS Integers, Sequences, FiniteSets, TLC

\* ---------------------------------------------------------------- bounds
\* Largest number of video files in the selected folder.
MaxVideos == 2
\* Frames every capture delivers before read() fails, in a session whose
\* operator classifies clips.
SessionFrames == 2
\* Largest number of video files, and of frames a capture delivers before
\* read() fails, in a session whose operator uses the keyboard only.
MaxPlayVideos == 3
MaxFrames == 3
\* Largest number of rows save_to_csv appends in one session.
MaxLog == 2
\* Largest number of video files for which the pointer mapping is tabulated.
MaxMapVideos == 7
\* Largest number of data rows in a log that a session finds and summarises.
MaxSummaryRows == 4
\* Number of timestamp keys the document lists, and largest number of keys
\* one call of download_videos_by_timestamps is given.
MaxDocKeys == 2
MaxSelected == 2

\* ------------------------------------------------------- program constants
frame_width == 320
frame_height == 240
label_height == 30
status_bar_height == 40

KeyQuitLower == 113
KeyQuitUpper == 81
KeySpace == 32
KeyRewindLower == 114
KeyRewindUpper == 82
KeyFoundLower == 116
KeyFoundUpper == 84
KeyNotFoundLower == 102
KeyNotFoundUpper == 70
KeyEsc == 27
\* cv2.waitKey returns -1 on timeout; -1 & 0xFF = 255.
KeyNone == 255
\* A key the table does not map ('x').
KeyOther == 120

Keys ==
  { KeyQuitLower, KeyQuitUpper, KeySpace, KeyRewindLower, KeyRewindUpper,
    KeyFoundLower, KeyFoundUpper, KeyNotFoundLower, KeyNotFoundUpper,
    KeyEsc, KeyNone, KeyOther }

None == <<>>
Some(v) == <<v>>

\* The blank placeholder frame (np.zeros), as opposed to frame number k >= 0.
Blank == -1

\* ------------------------------------------------------------ file names
\* Base names a folder may hold, in sorted order, each given by what the
\* regular expression of extract_label_and_info makes of it: matched, and
\* then its groups (channel<digits>, timestamp, status word).  Every third
\* name does not follow the grammar.
FileStatus(i) ==
  CASE i % 4 = 0 -> "found"
    [] i % 4 = 1 -> "not_found"
    [] i % 4 = 3 -> "FOUND"
    [] OTHER -> ""

FileNames ==
  [ i \in 0..MaxMapVideos |->
      [base |-> <<"file", i, "">>,
       matched |-> (i % 4 # 2),
       channel |-> 502 + 100 * i,
       timestamp |-> "20250618T145831",
       status |-> FileStatus(i)] ]

\* str.upper() on the status words that occur.
Upper(s) ==
  CASE s = "found" -> "FOUND"
    [] s = "not_found" -> "NOT_FOUND"
    [] OTHER -> s

\* A name is <<"channel", digits, suffix>>; the fallback is the base name.
extract_label_and_info(f) ==
  IF f.matched
    THEN [label |-> <<"channel", f.channel, Upper(f.status)>>,
          original_name |-> <<"channel", f.channel, f.timestamp>>,
          model_status |-> IF Upper(f.status) = "FOUND" THEN "FOUND" ELSE "NOT_FOUND"]
    ELSE [label |-> f.base,
          original_name |-> f.base,
          model_status |-> "UNKNOWN"]

\* sorted(glob(...)) of a folder of n files: the first n names.
video_files(n) == [i \in 0..(n - 1) |-> FileNames[i]]

\* video_info as main() builds it from the listing.
build_video_info(n) == [i \in 0..(n - 1) |-> extract_label_and_info(video_files(n)[i])]

\* ---------------------------------------------------------- grid geometry
\* int(np.ceil(np.sqrt(n)))
CeilSqrt(n) == CHOOSE c \in 0..n : c * c >= n /\ (c = 0 \/ (c - 1) * (c - 1) < n)

Len0(list) == Cardinality(DOMAIN list)

\* list[i] with Python's negative indices.
PyIndex(list, i) == IF i < 0 THEN list[Len0(list) + i] ELSE list[i]

VARIABLES
  video_info,              \* per clip: label, original_name, model_status
  cap_frames,              \* per clip: how many frames read() delivers
  cap_pos,                 \* per clip: CAP_PROP_POS_FRAMES
  video_done,              \* per clip: the exhausted flag
  paused,
  frames,                  \* per clip: the frame shown in the latest tick
  click_coords,            \* None or <<x, y>> with the status bar subtracted
  pending_classification,  \* None or <<[index, original_name, model_status]>>
  csvfile,                 \* [exists, rows] of video_classifications.csv
  csvfile0,                \* the file as the session found it
  decisions,               \* T/F presses received while a selection was pending
  summaries,               \* calls of print_summary
  summary,                 \* what print_summary printed
  interrupted,             \* the KeyboardInterrupt clause ran
  final_img,               \* the image of the latest imshow
  raised,                  \* None or the exception that left main()
  pc,
  \* src/video_downloader.py
  log_file,                \* None or <<the list in downloaded_log.json>>
  downloaded_log,          \* the set a running call holds
  todo,                    \* s3 keys the loops of a running call still visit
  local_files,             \* s3 keys whose download_file succeeded
  dpc                      \* "idle" or "running"

\* The variables of the classification tool and those of the downloader.
tool_vars ==
  << video_info, cap_frames, cap_pos, video_done, paused, frames, click_coords,
     pending_classification, csvfile, csvfile0, decisions, summaries, summary,
     interrupted, final_img, raised, pc >>
downloader_vars == << log_file, downloaded_log, todo, local_files, dpc >>

vars == << tool_vars, downloader_vars >>

total == Len0(video_info)
cols == CeilSqrt(total)
\* rows with the quotient rounded down.
rows_Floor == total \div cols
rows == (total + cols - 1) \div cols
Clips == 0..(total - 1)

\* Lines 334-339: the grid is rows of cols tiles cut from the frame list in
\* order, so clip i is drawn in this row and column.
LayoutRow(i) == i \div cols
LayoutCol(i) == i % cols

\* ------------------------------------------------------------ rendering
Max(a, b) == IF a >= b THEN a ELSE b
Min(a, b) == IF a <= b THEN a ELSE b

\* Lines 329-332: the list of frames after the filler frames are appended,
\* as the kind of each entry.
PaddedFrames(n, r, c) ==
  [k \in 0..(Max(n, r * c) - 1) |-> IF k < n THEN "video" ELSE "filler"]

\* Lines 334-339: the rows frames[r*c : (r+1)*c] stacked into the grid.
GridCells(padded, r, c) ==
  [k \in 0..(Min(Len0(padded), r * c) - 1) |-> padded[k]]

\* Highlighted with the index compared one off.
Highlighted_OffByOne(pending, i) == pending # None /\ pending[1].index = i + 1

\* Lines 313-315: the cell of clip i is drawn highlighted.
Highlighted(pending, i) == pending # None /\ pending[1].index = i

\* Lines 345-350: the classification overlay, if drawn.
Overlay(pending) ==
  IF pending # None
    THEN Some(<<pending[1].original_name, pending[1].model_status>>)
    ELSE None

\* No window is shown.
NoImage == [cells |-> <<>>, highlight |-> {}, overlay |-> None]

\* ------------------------------------------------------- pointer mapping
\* get_clicked_video_index with the caption band of a cell not clickable.
get_clicked_video_index_BandExcluded(x, y, cols_, rows_, fw, fh, total_videos) ==
  IF y < 0 THEN None
  ELSE LET video_height_with_label == fh + label_height
           col == x \div fw
           row == y \div video_height_with_label
           index == row * cols_ + col
       IN  IF col >= cols_ \/ row >= rows_ THEN None
           ELSE IF y % video_height_with_label >= fh THEN None
           ELSE IF index < total_videos THEN Some(index) ELSE None

\* get_clicked_video_index with the row taken from the frame height alone.
get_clicked_video_index_NoLabel(x, y, cols_, rows_, fw, fh, total_videos) ==
  IF y < 0 THEN None
  ELSE LET col == x \div fw
           row == y \div fh
           index == row * cols_ + col
       IN  IF col >= cols_ \/ row >= rows_ THEN None
           ELSE IF index < total_videos THEN Some(index) ELSE None

\* get_clicked_video_index with the first pixel row of a tile given to the
\* tile above it.
get_clicked_video_index_RowOffByOne(x, y, cols_, rows_, fw, fh, total_videos) ==
  IF y < 0 THEN None
  ELSE LET video_height_with_label == fh + label_height
           col == x \div fw
           row == IF y = 0 THEN 0 ELSE (y - 1) \div video_height_with_label
           index == row * cols_ + col
       IN  IF col >= cols_ \/ row >= rows_ THEN None
           ELSE IF index < total_videos THEN Some(index) ELSE None

\* x // w and y // h are Python floor divisions, as \div is.
get_clicked_video_index(x, y, cols_, rows_, fw, fh, total_videos) ==
  IF y < 0 THEN None
  ELSE LET video_height_with_label == fh + label_height
           col == x \div fw
           row == y \div video_height_with_label
           index == row * cols_ + col
       IN  IF col >= cols_ \/ row >= rows_ THEN None
           ELSE IF index < total_videos THEN Some(index) ELSE None

\* The value mouse_callback stores for an event at window position (x, y).
mouse_callback(event, x, y) ==
  IF event = "LBUTTONDOWN" THEN <<x, y - status_bar_height>> ELSE click_coords

\* -------------------------------------------------------------- the log
\* The header row (fieldnames); its first field is shaped like a name.
Header == << <<"video_name", 0, "">>, "model_status", "manual_status" >>

\* save_to_csv with the header written by every call.
save_to_csv_HeaderAlways(file, original_name, model_status, manual_status) ==
  [exists |-> TRUE,
   rows |-> file.rows \o <<Header, <<original_name, model_status, manual_status>> >>]

\* The file after save_to_csv(original_name, model_status, manual_status).
save_to_csv(file, original_name, model_status, manual_status) ==
  LET file_exists == file.exists
      head == IF file_exists THEN file.rows ELSE <<Header>>
  IN  [exists |-> TRUE,
       rows |-> Append(head, <<original_name, model_status, manual_status>>)]

\* Rows of the file that hold data when the first row is the header row.
DataRows(file) == IF file.exists /\ Len(file.rows) > 0 THEN Tail(file.rows) ELSE <<>>

\* CountAgreements with an UNKNOWN model status taken as agreeing.
RECURSIVE CountAgreements_UnknownAgrees(_)
CountAgreements_UnknownAgrees(data) ==
  IF data = <<>> THEN 0
  ELSE (IF Head(data)[2] = Head(data)[3] \/ Head(data)[2] = "UNKNOWN" THEN 1 ELSE 0)
         + CountAgreements_UnknownAgrees(Tail(data))

\* sum(1 for row in data if row['model_status'] == row['manual_status'])
RECURSIVE CountAgreements(_)
CountAgreements(data) ==
  IF data = <<>> THEN 0
  ELSE (IF Head(data)[2] = Head(data)[3] THEN 1 ELSE 0) + CountAgreements(Tail(data))

\* The number f"{(a / n) * 100:.1f}" prints, in tenths of a percent: the
\* nearest tenth (no quotient a / n with n < 16 lies halfway between two).
Rate1f(a, n) == (2000 * a + n) \div (2 * n)

\* What print_summary prints: nothing (None) when the file is missing or
\* holds no data row, the counts and the rate otherwise.  csv.DictReader
\* names the columns by the first row; a first row without the column names
\* makes the lookup row['model_status'] fail, which the except clause reports.
print_summary(file) ==
  LET data == DataRows(file)
      agreements == CountAgreements(data)
  IN  IF ~file.exists \/ Len(data) = 0 THEN None
      ELSE IF file.rows[1] # Header
        THEN Some([kind |-> "error", count |-> 0, agreements |-> 0, rate |-> 0])
        ELSE Some([kind |-> "summary", count |-> Len(data),
                   agreements |-> agreements,
                   rate |-> Rate1f(agreements, Len(data))])

\* ------------------------------------------------------------- playback
\* ret of cap.read(): a frame is delivered while the cursor is before the
\* end of what the capture can decode (0 frames: the file did not open; a
\* decode failure in mid-stream ends the stream where it occurs).  A read
\* that fails leaves the cursor where it is.
read_ok(i) == cap_pos[i] < cap_frames[i]

\* Lines 291-311 for clip i: the frame shown, the flag and the cursor after
\* the decode step.  A paused read restores the cursor it advanced.
DecodedFrame(i) == IF ~video_done[i] /\ read_ok(i) THEN cap_pos[i] ELSE Blank
DecodedDone(i) == video_done[i] \/ ~read_ok(i)
DecodedPos(i) ==
  IF ~video_done[i] /\ ~paused /\ read_ok(i) THEN cap_pos[i] + 1 ELSE cap_pos[i]

\* LoopCondition with any() in place of all().
LoopCondition_Any(done, isPaused) == (\E i \in DOMAIN done : done[i]) /\ ~isPaused

\* LoopCondition with the negation of the pause flag dropped.
LoopCondition_WhilePaused(done, isPaused) == (\A i \in DOMAIN done : done[i]) /\ isPaused

\* LoopCondition without the test of the pause flag.
LoopCondition_IgnoringPause(done, isPaused) == \A i \in DOMAIN done : done[i]

\* all(video_done) and not paused, on the flags after the decode step.
LoopCondition(done, isPaused) == (\A i \in DOMAIN done : done[i]) /\ ~isPaused

\* Lines 322-327: the flags and cursors after the loop check.
LoopedDone(done, isPaused) ==
  IF LoopCondition(done, isPaused)
    THEN [i \in DOMAIN done |-> IF done[i] THEN FALSE ELSE done[i]]
    ELSE done
LoopedPos(pos, done, isPaused) ==
  IF LoopCondition(done, isPaused)
    THEN [i \in DOMAIN pos |-> IF done[i] THEN 0 ELSE pos[i]]
    ELSE pos

\* rewind_all_videos: every cursor to 0, every flag cleared.
RewoundPos(pos) == [i \in DOMAIN pos |-> 0]
RewoundDone(done) == [i \in DOMAIN done |-> FALSE]

\* ------------------------------------------------------ initial states
InitialFiles ==
  { [exists |-> FALSE, rows |-> <<>>],
    [exists |-> TRUE, rows |-> <<Header>>] }

\* Logs a session may find: none, or the header and up to MaxSummaryRows
\* rows that earlier sessions wrote for a matched and an unmatched file name.
LogRows ==
  { <<info.original_name, model, manual>> :
      info \in {build_video_info(3)[0], build_video_info(3)[2]},
      model \in {"FOUND", "NOT_FOUND", "UNKNOWN"},
      manual \in {"FOUND", "NOT_FOUND"} }

SummaryFiles ==
  { [exists |-> FALSE, rows |-> <<>>] } \cup
  { [exists |-> TRUE, rows |-> <<Header>> \o data] :
      data \in UNION { [1..k -> LogRows] : k \in 0..MaxSummaryRows } }

\* No download is running and nothing was ever downloaded.
DownloaderIdle ==
  /\ log_file = None
  /\ downloaded_log = {}
  /\ todo = <<>>
  /\ local_files = {}
  /\ dpc = "idle"

\* The tool started on a folder of up to maxVideos clips.
InitSession(maxVideos, lengths, files) ==
  /\ \E n \in 1..maxVideos :
       /\ video_info = build_video_info(n)
       /\ cap_frames \in [0..(n - 1) -> lengths]
       /\ cap_pos = [i \in 0..(n - 1) |-> 0]
       /\ video_done = [i \in 0..(n - 1) |-> FALSE]
       /\ frames = [i \in 0..(n - 1) |-> Blank]
  /\ paused = FALSE
  /\ click_coords = None
  /\ pending_classification = None
  /\ csvfile \in files
  /\ csvfile0 = csvfile
  /\ decisions = 0
  /\ summaries = 0
  /\ summary = None
  /\ interrupted = FALSE
  /\ final_img = NoImage
  /\ raised = None
  /\ pc = "loop"

InitFull(maxVideos, lengths, files) ==
  /\ DownloaderIdle
  /\ InitSession(maxVideos, lengths, files)

InitWith(maxVideos, lengths) == InitFull(maxVideos, lengths, InitialFiles)

\* A session on a folder of clips of equal length.
Init == InitWith(MaxVideos, {SessionFrames})

\* A session on a folder of clips of any length, unreadable ones included.
InitPlay == InitWith(MaxPlayVideos, 0..MaxFrames)

\* A session on a folder of up to MaxMapVideos unreadable clips.
InitMap == InitWith(MaxMapVideos, {0})

\* A session on a folder of one unreadable clip, with a log of earlier work.
InitLog == InitFull(1, {0}, SummaryFiles)

\* ------------------------------------------------------------ the tick
\* Lines 290-352: decode every clip, loop when all are exhausted, render.
RenderTick ==
  /\ pc = "loop"
  /\ UNCHANGED downloader_vars
  /\ LET done == [i \in Clips |-> DecodedDone(i)]
         pos == [i \in Clips |-> DecodedPos(i)]
     IN  /\ frames' = [i \in Clips |-> DecodedFrame(i)]
         /\ video_done' = LoopedDone(done, paused)
         /\ cap_pos' = LoopedPos(pos, done, paused)
  /\ final_img' =
       [cells |-> GridCells(PaddedFrames(total, rows, cols), rows, cols),
        highlight |-> {i \in Clips : Highlighted(pending_classification, i)},
        overlay |-> Overlay(pending_classification)]
  /\ pc' = "waitKey"
  /\ UNCHANGED << video_info, cap_frames, paused, click_coords,
                  pending_classification, csvfile, csvfile0, decisions,
                  summaries, summary, interrupted, raised >>

\* A pointer event delivered while waitKey polls the window.
ClickPoints ==
  { <<10, 10>>,      \* status bar
    <<10, 50>>,      \* first cell, video area
    <<330, 50>>,     \* second column, video area
    <<10, 290>> }    \* first cell, caption band

MouseCallback(event, x, y) ==
  /\ pc = "waitKey"
  /\ UNCHANGED downloader_vars
  /\ click_coords' = mouse_callback(event, x, y)
  /\ UNCHANGED << video_info, cap_frames, cap_pos, video_done, paused, frames,
                  pending_classification, csvfile, csvfile0,
                  decisions, summaries, summary, interrupted, final_img,
                  raised, pc >>

\* Command with the cancel key falling into the confirm-found branch.
Command_EscSaves(key, pending) ==
  IF key = KeyQuitLower \/ key = KeyQuitUpper THEN "quit"
  ELSE IF key = KeySpace THEN "pause"
  ELSE IF key = KeyRewindLower \/ key = KeyRewindUpper THEN "rewind"
  ELSE IF pending # None
    THEN IF key = KeyFoundLower \/ key = KeyFoundUpper \/ key = KeyEsc THEN "found"
         ELSE IF key = KeyNotFoundLower \/ key = KeyNotFoundUpper THEN "not_found"
         ELSE "none"
  ELSE "none"

\* Command with the quit test placed after the classification branch.
Command_QuitOnlyIdle(key, pending) ==
  IF key = KeySpace THEN "pause"
  ELSE IF key = KeyRewindLower \/ key = KeyRewindUpper THEN "rewind"
  ELSE IF pending # None
    THEN IF key = KeyFoundLower \/ key = KeyFoundUpper THEN "found"
         ELSE IF key = KeyNotFoundLower \/ key = KeyNotFoundUpper THEN "not_found"
         ELSE IF key = KeyEsc THEN "cancel"
         ELSE "none"
  ELSE IF key = KeyQuitLower \/ key = KeyQuitUpper THEN "quit"
  ELSE "none"

\* The branch of the if/elif chain of lines 357-385 that key takes.
Command(key, pending) ==
  IF key = KeyQuitLower \/ key = KeyQuitUpper THEN "quit"
  ELSE IF key = KeySpace THEN "pause"
  ELSE IF key = KeyRewindLower \/ key = KeyRewindUpper THEN "rewind"
  ELSE IF pending # None
    THEN IF key = KeyFoundLower \/ key = KeyFoundUpper THEN "found"
         ELSE IF key = KeyNotFoundLower \/ key = KeyNotFoundUpper THEN "not_found"
         ELSE IF key = KeyEsc THEN "cancel"
         ELSE "none"
  ELSE "none"

\* PendingAfterKey with the rewind branch clearing the selection.
PendingAfterKey_RewindCancels(cmd, pending) ==
  IF cmd \in {"found", "not_found", "cancel", "rewind"} THEN None ELSE pending

\* pending_classification after the key was handled.
PendingAfterKey(cmd, pending) ==
  IF cmd \in {"found", "not_found", "cancel"} THEN None ELSE pending

\* The log after the key was handled.
FileAfterKey(cmd, pending, file) ==
  IF cmd = "found"
    THEN save_to_csv(file, pending[1].original_name, pending[1].model_status, "FOUND")
  ELSE IF cmd = "not_found"
    THEN save_to_csv(file, pending[1].original_name, pending[1].model_status, "NOT_FOUND")
  ELSE file

\* ClickTaken without the test for a pending selection.
ClickTaken_IgnoringPending(click, pending) == click # None

\* Line 388: the buffered click is looked at.
ClickTaken(click, pending) == click # None /\ pending = None

\* Lines 389-392.
ResolveClick(click) ==
  get_clicked_video_index(click[1], click[2], cols, rows, frame_width,
                          frame_height, total)

\* Lines 394-403: the selection a resolved index creates, if any.
SelectionOf(ci, info) ==
  IF ci # None /\ ci[1] < Len0(info)
    THEN Some([index |-> ci[1],
               original_name |-> PyIndex(info, ci[1]).original_name,
               model_status |-> PyIndex(info, ci[1]).model_status])
    ELSE None

\* Rows appended by save_to_csv since the session began.
Appended == Len(DataRows(csvfile)) - Len(DataRows(csvfile0))

IsDecisionKey(key) ==
  key \in {KeyFoundLower, KeyFoundUpper, KeyNotFoundLower, KeyNotFoundUpper}

\* The finally clause of main() and its return: the captures are released,
\* the window is destroyed, the summary is printed, and the locals of main()
\* are gone.
FinallyClause ==
  /\ cap_pos' = [i \in Clips |-> 0]
  /\ video_done' = [i \in Clips |-> FALSE]
  /\ frames' = [i \in Clips |-> Blank]
  /\ final_img' = NoImage
  /\ summaries' = summaries + 1
  /\ summary' = print_summary(csvfile)
  /\ pc' = "exited"

\* Lines 355-405: the key waitKey returned is handled, then the buffered
\* click.  Quit breaks out of the loop into the finally clause.
HandleKey(key) ==
  /\ pc = "waitKey"
  /\ UNCHANGED downloader_vars
  /\ (IsDecisionKey(key) /\ pending_classification # None) => Appended < MaxLog
  /\ LET cmd == Command(key, pending_classification)
         pending1 == PendingAfterKey(cmd, pending_classification)
     IN  IF cmd = "quit"
           THEN /\ FinallyClause
                /\ UNCHANGED << video_info, cap_frames, paused,
                                click_coords, pending_classification,
                                csvfile, csvfile0, decisions, interrupted,
                                raised >>
           ELSE /\ paused' = IF cmd = "pause" THEN ~paused ELSE paused
                /\ cap_pos' = IF cmd = "rewind" THEN RewoundPos(cap_pos) ELSE cap_pos
                /\ video_done' = IF cmd = "rewind" THEN RewoundDone(video_done)
                                                   ELSE video_done
                /\ csvfile' = FileAfterKey(cmd, pending_classification, csvfile)
                /\ decisions' = IF IsDecisionKey(key) /\ pending_classification # None
                                  THEN decisions + 1 ELSE decisions
                /\ IF ClickTaken(click_coords, pending1)
                     THEN /\ pending_classification' =
                               SelectionOf(ResolveClick(click_coords), video_info)
                          /\ click_coords' = None
                     ELSE /\ pending_classification' = pending1
                          /\ UNCHANGED click_coords
                /\ pc' = "loop"
                /\ UNCHANGED << video_info, cap_frames, frames, csvfile0,
                                summaries, summary, interrupted, final_img,
                                raised >>

\* except with every exception caught.
Caught_Any(exc) == TRUE

\* Line 407: the only except clause of main() names KeyboardInterrupt.
Caught(exc) == exc = "KeyboardInterrupt"

\* What leaves main() when exc is raised inside the try block.
Propagated(exc) == IF Caught(exc) THEN None ELSE Some(exc)

\* Ctrl-C: the except clause of line 407, then the finally clause.
KeyboardInterrupt ==
  /\ pc \in {"loop", "waitKey"}
  /\ UNCHANGED downloader_vars
  /\ interrupted' = Caught("KeyboardInterrupt")
  /\ raised' = Propagated("KeyboardInterrupt")
  /\ FinallyClause
  /\ UNCHANGED << video_info, cap_frames, paused, click_coords,
                  pending_classification, csvfile, csvfile0, decisions >>

\* The file after a save_to_csv that raised: open() failed and the file is
\* as it was, or the file was opened (created if absent) and writing the
\* header or the row failed.
FailedSaveOutcomes(file) ==
  { file,
    [exists |-> TRUE, rows |-> file.rows],
    [exists |-> TRUE, rows |-> IF file.exists THEN file.rows ELSE <<Header>>] }

\* T or F on a pending selection, and save_to_csv raises OSError (lines
\* 369, 377): no except clause matches, the finally clause runs, and the
\* exception leaves main().
SaveFails(key) ==
  /\ pc = "waitKey"
  /\ UNCHANGED downloader_vars
  /\ Command(key, pending_classification) \in {"found", "not_found"}
  /\ csvfile' \in FailedSaveOutcomes(csvfile)
  /\ decisions' = decisions + 1
  /\ interrupted' = (interrupted \/ Caught("OSError"))
  /\ raised' = Propagated("OSError")
  /\ cap_pos' = [i \in Clips |-> 0]
  /\ video_done' = [i \in Clips |-> FALSE]
  /\ frames' = [i \in Clips |-> Blank]
  /\ final_img' = NoImage
  /\ summaries' = summaries + 1
  /\ summary' = print_summary(csvfile')
  /\ pc' = "exited"
  /\ UNCHANGED << video_info, cap_frames, paused, click_coords,
                  pending_classification, csvfile0 >>

SaveFailure ==
  \E key \in {KeyFoundLower, KeyFoundUpper, KeyNotFoundLower, KeyNotFoundUpper} :
    SaveFails(key)

PointerEvent ==
  \E event \in {"LBUTTONDOWN", "MOUSEMOVE"} : \E p \in ClickPoints :
    MouseCallback(event, p[1], p[2])

KeyEvent == \E key \in Keys : HandleKey(key)

Next ==
  \/ RenderTick
  \/ PointerEvent
  \/ KeyEvent
  \/ KeyboardInterrupt

\* The session of an operator who clicks, classifies, pauses, rewinds, quits.
Spec == Init /\ [][Next]_vars

\* The session on a disk that can refuse a write.
NextFail ==
  \/ Next
  \/ SaveFailure

SpecFail == Init /\ [][NextFail]_vars

\* The session of an operator who uses the keyboard only.
NextPlay ==
  \/ RenderTick
  \/ KeyEvent
  \/ KeyboardInterrupt

SpecPlay == InitPlay /\ [][NextPlay]_vars

\* The keyboard-only session as it is scheduled: the body of the while loop
\* has no blocking call but waitKey(30), which returns after 30 ms at the
\* latest, so a tick that can be rendered is rendered and a key that is
\* awaited (no key included) is handled.
SpecPlayLive ==
  InitPlay /\ [][NextPlay]_vars /\ WF_vars(RenderTick) /\ WF_vars(KeyEvent)

\* Window positions around every edge of every tile of the largest grid,
\* of the status bar, and beyond the grid on each side.
MapCols == CeilSqrt(MaxMapVideos)
MapXs == { k * frame_width + d : k \in (-1)..MapCols, d \in {0, 10, frame_width - 1} }
MapYs ==
  {0, status_bar_height - 1} \cup
  { status_bar_height + k * (frame_height + label_height) + d :
      k \in 0..MapCols,
      d \in {0, frame_height - 1, frame_height, frame_height + label_height - 1} }

\* One click per poll: a second click would only overwrite the first.
MapPointerEvent ==
  /\ click_coords = None
  /\ \E x \in MapXs : \E y \in MapYs : MouseCallback("LBUTTONDOWN", x, y)

\* The session of an operator who clicks anywhere and cancels every selection.
NextMap ==
  \/ RenderTick
  \/ MapPointerEvent
  \/ HandleKey(KeyNone)
  \/ HandleKey(KeyEsc)

SpecMap == InitMap /\ [][NextMap]_vars

\* The session of an operator who only ends it, by Ctrl-C or by Q.
NextLog ==
  \/ RenderTick
  \/ HandleKey(KeyQuitLower)
  \/ KeyboardInterrupt

SpecLog == InitLog /\ [][NextLog]_vars

\* ======================================================================
\* The downloader (src/video_downloader.py)
\* ======================================================================

\* channel_list (line 86), cut down to its first two channels.
channel_list == <<502, 602>>

\* hhmm_map (parse_docx_group_by_HHMM): the document lists the keys
\* 1..MaxDocKeys; a key of odd number has an entry for every channel, a key
\* of even number for the first channel only.  Key 0 is not in the document.
DocKeys == 1..MaxDocKeys
HasEntry(key, channel) == key \in DocKeys /\ (key % 2 = 1 \/ channel = channel_list[1])

\* s3_key = f"{channel}_{full_ts}.mkv": the channel and the timestamp.
S3Key(channel, key) == <<channel, key>>
AllS3Keys ==
  { S3Key(channel_list[c], key) : c \in DOMAIN channel_list, key \in DocKeys }

Range(seq) == { seq[k] : k \in DOMAIN seq }

\* list(log_set), in some order.
RECURSIVE SetToList(_)
SetToList(set) ==
  IF set = {} THEN <<>>
  ELSE LET x == CHOOSE x \in set : TRUE IN <<x>> \o SetToList(set \ {x})

\* load_log: set(json.load(f)) if the file exists, set() otherwise.
load_log(file) == IF file # None THEN Range(file[1]) ELSE {}

\* save_log: what json.dump(list(log_set)) leaves in the file.
save_log(log_set) == Some(SetToList(log_set))

\* Lines 99-116 for one key: the s3 keys the inner loop looks at, in order.
RECURSIVE KeyIterations(_, _)
KeyIterations(key, c) ==
  IF c > Len(channel_list) THEN <<>>
  ELSE (IF HasEntry(key, channel_list[c])
          THEN <<S3Key(channel_list[c], key)>> ELSE <<>>)
         \o KeyIterations(key, c + 1)

\* Lines 88-116: the s3 keys the loops look at for selected_keys, in order;
\* a key that is not in the document is skipped.
RECURSIVE Iterations(_)
Iterations(selected_keys) ==
  IF selected_keys = <<>> THEN <<>>
  ELSE KeyIterations(Head(selected_keys), 1) \o Iterations(Tail(selected_keys))

\* AlreadyDownloaded with the test of the log left out.
AlreadyDownloaded_Never(s3_key, log) == FALSE

\* Line 110: s3_key in downloaded_log.
AlreadyDownloaded(s3_key, log) == s3_key \in log

\* Logs the downloader may find: none, an empty list, one s3 key.
InitialLogs == { None, save_log({}), save_log({S3Key(channel_list[1], 1)}) }

InitDownload ==
  /\ InitSession(1, {0}, {[exists |-> FALSE, rows |-> <<>>]})
  /\ log_file \in InitialLogs
  /\ downloaded_log = {}
  /\ todo = <<>>
  /\ local_files = load_log(log_file)
  /\ dpc = "idle"

\* download_videos_by_timestamps(selected_keys), lines 82-86.
StartCall(selected_keys) ==
  /\ dpc = "idle"
  /\ downloaded_log' = load_log(log_file)
  /\ todo' = Iterations(selected_keys)
  /\ dpc' = "running"
  /\ UNCHANGED << log_file, local_files, tool_vars >>

\* Lines 110-111: the s3 key is in the log, continue.
Skip ==
  /\ dpc = "running" /\ todo # <<>>
  /\ AlreadyDownloaded(Head(todo), downloaded_log)
  /\ todo' = Tail(todo)
  /\ UNCHANGED << log_file, downloaded_log, local_files, dpc, tool_vars >>

\* Lines 113-114: download_from_s3 is called and returns ok; the s3 key is
\* added to the set when it returned True.
Fetch(s3_key, ok) ==
  /\ dpc = "running" /\ todo # <<>>
  /\ s3_key = Head(todo)
  /\ ~AlreadyDownloaded(s3_key, downloaded_log)
  /\ local_files' = IF ok THEN local_files \cup {s3_key} ELSE local_files
  /\ downloaded_log' = IF ok THEN downloaded_log \cup {s3_key} ELSE downloaded_log
  /\ todo' = Tail(todo)
  /\ UNCHANGED << log_file, dpc, tool_vars >>

\* Line 118: the loops are done, save_log(downloaded_log); the call returns.
FinishCall ==
  /\ dpc = "running" /\ todo = <<>>
  /\ log_file' = save_log(downloaded_log)
  /\ downloaded_log' = {}
  /\ dpc' = "idle"
  /\ UNCHANGED << todo, local_files, tool_vars >>

\* The call is left by an exception before line 118 (Ctrl-C, or os.makedirs
\* failing at line 97): the file is as it was.
CallInterrupted ==
  /\ dpc = "running"
  /\ downloaded_log' = {}
  /\ todo' = <<>>
  /\ dpc' = "idle"
  /\ UNCHANGED << log_file, local_files, tool_vars >>

SelectedKeys == UNION { [1..n -> 0..MaxDocKeys] : n \in 1..MaxSelected }

NextDownload ==
  \/ \E selected_keys \in SelectedKeys : StartCall(selected_keys)
  \/ Skip
  \/ \E s3_key \in AllS3Keys : \E ok \in BOOLEAN : Fetch(s3_key, ok)
  \/ FinishCall
  \/ CallInterrupted

\* Any sequence of calls of download_videos_by_timestamps.
SpecDownload == InitDownload /\ [][NextDownload]_vars

\* ======================================================================
\* Properties of the session
\* ======================================================================

\* Steps of the session, told apart by the control point they leave.
RenderStep == pc = "loop" /\ pc' = "waitKey"
InputStep == pc = "waitKey" /\ pc' = "loop"
QuitStep == HandleKey(KeyQuitLower) \/ HandleKey(KeyQuitUpper)
\* The input step resolves the buffered click.
ClickConsumed == InputStep /\ click_coords # None /\ click_coords' = None

\* The selection that holds clip i.
SelectionOfClip(i) ==
  Some([index |-> i,
        original_name |-> video_info[i].original_name,
        model_status |-> video_info[i].model_status])

\* C1: at every moment of the session the number of rows appended to the
\* log equals the number of T or F presses received while a selection was
\* pending; no other key, no click and no T/F pressed while idle appends.
C1_OneRecordPerDecision == Appended = decisions

\* Two decisions were taken and two rows were appended.
C1_Witness == pc = "loop" /\ decisions = MaxLog /\ Appended = MaxLog

\* C2: a tick that begins its input step with a selection pending and a
\* click buffered ends with the buffer empty, and the click selects nothing:
\* the selection is the one that was pending, or none.
C2_ClickWhilePendingDropped ==
  [][(InputStep /\ pending_classification # None /\ click_coords # None)
       => /\ click_coords' = None
          /\ pending_classification' \in {None, pending_classification}]_vars

\* C3: a click from idle on clip i makes the selection of clip i; T (F) on
\* a selection of a clip appends exactly the row of that clip with FOUND
\* (NOT_FOUND) and the tick ends idle, the selection cleared.
C3_SelectConfirmReturnsIdle ==
  [][/\ (ClickConsumed /\ pending_classification = None)
          => \A i \in Clips :
               ResolveClick(click_coords) = Some(i)
                 => pending_classification' = SelectionOfClip(i)
     /\ \A key \in {KeyFoundLower, KeyFoundUpper, KeyNotFoundLower, KeyNotFoundUpper} :
          (HandleKey(key) /\ pending_classification # None
             /\ pending_classification[1].index \in Clips)
            => /\ \E i \in Clips :
                    /\ pending_classification = SelectionOfClip(i)
                    /\ csvfile'.rows =
                         Append(IF csvfile.exists THEN csvfile.rows ELSE <<Header>>,
                                << video_info[i].original_name,
                                   video_info[i].model_status,
                                   IF key \in {KeyFoundLower, KeyFoundUpper}
                                     THEN "FOUND" ELSE "NOT_FOUND" >>)
               /\ pending_classification' = None]_vars

\* C4: a pending selection changes only in the step of a confirm (T/F) or
\* cancel (ESC) key, and a selection is created from none only by the click
\* an input step resolves; a click or any other key leaves it as it is.
C4_PendingStable ==
  [][/\ (pending_classification # None
           /\ pending_classification' # pending_classification)
          => \E key \in {KeyFoundLower, KeyFoundUpper, KeyNotFoundLower,
                         KeyNotFoundUpper, KeyEsc} : HandleKey(key)
     /\ (pending_classification = None /\ pending_classification' # None)
          => ClickConsumed]_vars

\* A click arrived while a selection was pending, the tick is over, and the
\* selection is still there.
C4_Witness ==
  pc = "loop" /\ pending_classification # None /\ click_coords # None

\* C5: Q is accepted whenever a key is awaited, idle or not: its step ends
\* the loop, leaves the log as it is and prints the summary; the summary is
\* printed once, and exactly when the session has ended.
C5_QuitEndsSession ==
  /\ [][\A key \in {KeyQuitLower, KeyQuitUpper} :
          /\ (pc = "waitKey") => ENABLED HandleKey(key)
          /\ HandleKey(key)
               => /\ pc' = "exited"
                  /\ csvfile' = csvfile
                  /\ summaries' = summaries + 1
                  /\ summary' = print_summary(csvfile)]_vars
  /\ [](summaries = IF pc = "exited" THEN 1 ELSE 0)

\* The session was quit with a selection pending, nothing appended for it.
C5_Witness ==
  /\ pc = "exited" /\ ~interrupted
  /\ pending_classification # None
  /\ Appended = 0 /\ summaries = 1

\* ======================================================================
\* Properties of the pointer mapping
\* ======================================================================

\* The buffered click as a window position (the status bar added back).
ClickX == click_coords[1]
ClickY == click_coords[2] + status_bar_height

TileHeight == frame_height + label_height

\* Window position (px, py) lies in the tile drawn for clip i.
InTile(i, px, py) ==
  /\ LayoutCol(i) * frame_width <= px
  /\ px < (LayoutCol(i) + 1) * frame_width
  /\ LayoutRow(i) * TileHeight <= py - status_bar_height
  /\ py - status_bar_height < (LayoutRow(i) + 1) * TileHeight

InStatusBar(py) == py < status_bar_height

\* Window position (px, py) lies in the caption band of the tile of clip i.
InCaptionBand(i, px, py) ==
  /\ InTile(i, px, py)
  /\ py - status_bar_height >= LayoutRow(i) * TileHeight + frame_height

C7_MappingInvertsLayout ==
  [][ClickConsumed
       => LET column == ClickX \div frame_width
              row == (ClickY - status_bar_height) \div TileHeight
          IN  /\ \A i \in Clips :
                   InTile(i, ClickX, ClickY)
                     => pending_classification' = SelectionOfClip(i)
              /\ (\/ InStatusBar(ClickY)
                  \/ column >= cols
                  \/ row >= rows
                  \/ row * cols + column >= total)
                   => pending_classification' = None]_vars

\* The last clip of the largest grid was selected by a click.
C7_Witness ==
  /\ total = MaxMapVideos
  /\ pending_classification = SelectionOfClip(total - 1)
  /\ LayoutRow(total - 1) > 0 /\ LayoutCol(total - 1) < cols - 1

\* C8 as claimed: with three clips (a 2x2 grid) the click at (330, 310)
\* selects clip 1 and the click at (330, 580) selects nothing.
C8_ExampleAsClaimed ==
  [][(ClickConsumed /\ total = 3 /\ ClickX = 330)
       => /\ ClickY = 310 => pending_classification' = SelectionOfClip(1)
          /\ ClickY = 580 => pending_classification' = None]_vars

\* C8 amended: with three clips (a 2x2 grid) the click at (330, 310) lies in
\* column 1 of row 1, the filler cell of index 3, and selects nothing; the
\* click at (330, 580) lies in row 2 and selects nothing.
C8_ExampleAmended ==
  [][(ClickConsumed /\ total = 3 /\ ClickX = 330)
       => /\ ClickY = 310
               => /\ ClickX \div frame_width = 1
                  /\ (ClickY - status_bar_height) \div TileHeight = 1
                  /\ 1 * cols + 1 = 3 /\ rows = 2
                  /\ pending_classification' = None
          /\ ClickY = 580
               => /\ (ClickY - status_bar_height) \div TileHeight = 2
                  /\ pending_classification' = None]_vars

\* With three clips, the click at (330, 310) is about to be resolved.
C8_Witness ==
  /\ total = 3 /\ pc = "waitKey" /\ pending_classification = None
  /\ click_coords # None /\ ClickX = 330 /\ ClickY = 310

\* ======================================================================
\* Properties of playback
\* ======================================================================

\* Clip i is exhausted when the loop check of a tick looks at it: it was
\* exhausted before the tick, or its read fails in the tick.
ExhaustedAtLoopCheck(i) == video_done[i] \/ cap_pos[i] >= cap_frames[i]

RewindStep == HandleKey(KeyRewindLower) \/ HandleKey(KeyRewindUpper)

\* C9: a tick whose loop check finds every clip exhausted and playback not
\* paused leaves every cursor at the start and every flag cleared; a tick
\* whose loop check finds a clip not exhausted moves no cursor back and
\* clears no flag.
C9_LoopWhenAllExhausted ==
  [][RenderStep
       => IF (\A i \in Clips : ExhaustedAtLoopCheck(i)) /\ ~paused
            THEN \A i \in Clips : cap_pos'[i] = 0 /\ ~video_done'[i]
            ELSE \A i \in Clips :
                   /\ cap_pos'[i] >= cap_pos[i]
                   /\ video_done'[i] = ExhaustedAtLoopCheck(i)]_vars

\* Clips of different lengths were all exhausted and have just been looped:
\* the tick showed only blank frames and left every cursor at the start.
C9_Witness ==
  /\ pc = "waitKey" /\ ~paused /\ total >= 2
  /\ \E i, j \in Clips : cap_frames[i] = MaxFrames /\ cap_frames[j] < cap_frames[i]
  /\ \A i \in Clips : cap_pos[i] = 0 /\ ~video_done[i] /\ frames[i] = Blank

\* C10: a tick executed while paused leaves an exhausted clip exhausted,
\* shows the blank placeholder for it and does not move its cursor; R puts
\* every cursor at the start and clears every flag, paused or not; no other
\* key that keeps the session running touches cursors or flags.
C10_PausedStaysExhausted ==
  [][/\ (RenderStep /\ paused)
          => \A i \in Clips :
               video_done[i]
                 => video_done'[i] /\ frames'[i] = Blank /\ cap_pos'[i] = cap_pos[i]
     /\ RewindStep => \A i \in Clips : cap_pos'[i] = 0 /\ ~video_done'[i]
     /\ (InputStep /\ ~RewindStep) => UNCHANGED << cap_pos, video_done >>]_vars

\* Playback is paused, every clip is exhausted, and the tick has left them so.
C10_Witness ==
  /\ pc = "waitKey" /\ paused /\ total >= 2
  /\ \E i \in Clips : cap_frames[i] = MaxFrames
  /\ \A i \in Clips : video_done[i] /\ frames[i] = Blank

\* C11: a tick executed while paused leaves the cursor and the exhausted
\* flag of every clip as they were, also for a clip whose cursor stands at
\* the end of its stream and whose flag is not yet set.
C11_PauseKeepsClipState ==
  [][(RenderStep /\ paused)
       => \A i \in Clips :
            cap_pos'[i] = cap_pos[i] /\ video_done'[i] = video_done[i]]_vars

\* C12: a clip that does not open (no frame can be decoded) shows the blank
\* placeholder in every tick, and once a tick has marked it exhausted every
\* later tick leaves it marked: the loop check does not restart it.
C12_FailedClipStaysExhausted ==
  [][RenderStep
       => \A i \in Clips :
            cap_frames[i] = 0
              => /\ frames'[i] = Blank
                 /\ video_done[i] => video_done'[i]]_vars

\* ======================================================================
\* Properties of the log
\* ======================================================================

ManualOf(key) == IF key \in {KeyFoundLower, KeyFoundUpper} THEN "FOUND" ELSE "NOT_FOUND"

HeaderRows(file) == {k \in DOMAIN file.rows : file.rows[k] = Header}

\* C13: a log that did not exist when the session began consists, after n
\* >= 1 appends, of one header row followed by n data rows; every append
\* leaves the rows already in the file as they are, adds the row of its call
\* as the last row, and writes the header only when the file did not exist.
C13_HeaderWrittenOnce ==
  /\ []((~csvfile0.exists /\ csvfile.exists)
          => /\ csvfile.rows[1] = Header
             /\ HeaderRows(csvfile) = {1}
             /\ Len(csvfile.rows) = 1 + decisions
             /\ decisions >= 1)
  /\ [][csvfile' # csvfile
          => LET before == IF csvfile.exists THEN csvfile.rows ELSE <<Header>>
                 n == Len(before)
             IN  /\ csvfile'.exists
                 /\ Len(csvfile'.rows) = n + 1
                 /\ SubSeq(csvfile'.rows, 1, n) = before
                 /\ \E key \in {KeyFoundLower, KeyFoundUpper,
                                KeyNotFoundLower, KeyNotFoundUpper} :
                      /\ HandleKey(key)
                      /\ csvfile'.rows[n + 1] =
                           << pending_classification[1].original_name,
                              pending_classification[1].model_status,
                              ManualOf(key) >>]_vars

\* Two appends went to a log that did not exist: a header and two rows.
C13_Witness ==
  /\ ~csvfile0.exists /\ csvfile.exists
  /\ Len(csvfile.rows) = MaxLog + 1 /\ HeaderRows(csvfile) = {1}

\* ======================================================================
\* Progress of playback
\* ======================================================================

ClipSlots == 0..(MaxPlayVideos - 1)

\* Clip i of the folder, if there is one, can deliver a frame.
Decodable(i) == i \in Clips /\ cap_frames[i] > 0

\* C14: in a session that is never ended and in which playback is from some
\* tick on never paused, every clip that has a decodable frame shows a real
\* frame again and again, and again and again some clip is not exhausted
\* when at least one clip has a decodable frame.
C14_DisplayNeverIdles ==
  \A i \in ClipSlots :
    ([](pc # "exited") /\ <>[](~paused))
      => /\ []<>(Decodable(i) => frames[i] # Blank)
         /\ []<>(Decodable(i) => \E j \in Clips : ~video_done[j])

\* A clip that has frames is exhausted and shown blank while a longer clip
\* still plays: it waits for the loop.
C14_Witness ==
  /\ pc = "waitKey" /\ ~paused
  /\ \E i, j \in Clips :
       /\ cap_frames[i] > 0 /\ video_done[i] /\ frames[i] = Blank
       /\ ~video_done[j] /\ frames[j] # Blank

\* ======================================================================
\* Properties of a failing write
\* ======================================================================

\* C15: when save_to_csv raises for a confirmed decision, the step ends
\* the session with the exception leaving main(): the loop is not resumed,
\* the selection is not cleared as after a written record, and the log holds
\* no data row for the decision; a session that raised stays ended, with
\* fewer rows appended than decisions taken.
C15_WriteFailurePropagates ==
  /\ [][\A key \in {KeyFoundLower, KeyFoundUpper, KeyNotFoundLower, KeyNotFoundUpper} :
          SaveFails(key)
            => /\ pc' = "exited"
               /\ raised' = Some("OSError")
               /\ ~interrupted'
               /\ pending_classification' = pending_classification
               /\ pending_classification' # None
               /\ DataRows(csvfile') = DataRows(csvfile)]_vars
  /\ [](raised # None => pc = "exited" /\ Appended < decisions)
  /\ [][raised # None => UNCHANGED vars]_vars

\* The second decision of a session could not be written: one row is in the
\* log, two decisions were taken, and the exception has left main().
C15_Witness ==
  /\ pc = "exited" /\ raised = Some("OSError")
  /\ decisions = 2 /\ Appended = 1
  /\ pending_classification # None

\* ======================================================================
\* Properties of the playback keys in the session
\* ======================================================================

\* C16: SPACE and R are handled whenever a key is awaited, with or without
\* a selection pending; their step appends nothing, SPACE flips the pause
\* flag and R leaves it, and a pending selection is exactly what it was; with
\* no selection pending the step ends with none, unless a click buffered for
\* that tick is resolved in it, as in any tick.
C16_PlaybackKeysKeepSelection ==
  [][\A key \in {KeySpace, KeyRewindLower, KeyRewindUpper} :
       /\ (pc = "waitKey") => ENABLED HandleKey(key)
       /\ HandleKey(key)
            => /\ csvfile' = csvfile
               /\ decisions' = decisions
               /\ paused' = IF key = KeySpace THEN ~paused ELSE paused
               /\ pending_classification # None
                    => pending_classification' = pending_classification
               /\ (pending_classification = None /\ click_coords = None)
                    => pending_classification' = None
               /\ (pending_classification = None /\ click_coords # None)
                    => pending_classification' =
                         SelectionOf(ResolveClick(click_coords), video_info)]_vars

\* The tick that rendered the overlay of a selection was playing; its input
\* step paused playback, and the selection is as it was rendered.
C16_Witness ==
  /\ pc = "loop" /\ paused
  /\ pending_classification # None
  /\ final_img.overlay = Overlay(pending_classification)
  /\ \E i \in Clips : frames[i] # Blank /\ cap_pos[i] = frames[i] + 1

\* ======================================================================
\* Properties of the summary
\* ======================================================================

AgreeingRows(data) == {k \in DOMAIN data : data[k][2] = data[k][3]}

\* C17: the summary printed for a log of n data rows is nothing when n = 0;
\* otherwise its count is n, its agreement count is the number of rows whose
\* model status equals the manual status (so no more than the rows whose
\* model status is not UNKNOWN, equal rows counting each), and its rate is
\* the tenth of a percent nearest to 100 * agreements / n; 3 of 4 gives 75.0.
C17_SummaryCounts ==
  pc = "exited"
    => LET data == DataRows(csvfile)
           n == Len(data)
           a == Cardinality(AgreeingRows(data))
       IN  IF n = 0 THEN summary = None
           ELSE /\ summary # None
                /\ summary[1].kind = "summary"
                /\ summary[1].count = n
                /\ summary[1].agreements = a
                /\ a <= Cardinality({k \in DOMAIN data : data[k][2] # "UNKNOWN"})
                /\ 2 * (summary[1].rate * n - 1000 * a) <= n
                /\ 2 * (1000 * a - summary[1].rate * n) <= n
                /\ (n = 4 /\ a = 3) => summary[1].rate = 750

\* The summary of a log of four rows, one of them with model status UNKNOWN
\* and two of them equal: 4 rows, 3 agreements, 75.0 percent.
C17_Witness ==
  /\ pc = "exited" /\ summary # None
  /\ Len(DataRows(csvfile)) = 4
  /\ DataRows(csvfile)[1] = DataRows(csvfile)[2]
  /\ DataRows(csvfile)[3][2] = "UNKNOWN"
  /\ summary[1].count = 4 /\ summary[1].agreements = 3 /\ summary[1].rate = 750

\* ======================================================================
\* Properties of the order of rendering and input
\* ======================================================================

ConfirmOrCancelKeys ==
  {KeyFoundLower, KeyFoundUpper, KeyNotFoundLower, KeyNotFoundUpper, KeyEsc}

C19_Lockstep ==
  /\ [](pc # "exited"
          => \A i, j \in Clips :
               (~video_done[i] /\ ~video_done[j]) => cap_pos[i] = cap_pos[j])
  /\ [][/\ (\E i \in Clips : cap_pos'[i] < cap_pos[i])
             => /\ \A j \in Clips : cap_pos'[j] = 0
                /\ \/ RewindStep
                   \/ RenderStep /\ ~paused /\ \A j \in Clips : ExhaustedAtLoopCheck(j)
                   \/ pc' = "exited"
        /\ (RenderStep /\ \E j \in Clips : ~ExhaustedAtLoopCheck(j))
             => \A i \in Clips :
                  cap_pos'[i] =
                    IF frames'[i] # Blank /\ ~paused THEN cap_pos[i] + 1 ELSE cap_pos[i]]_vars

\* Three clips: one has ended and waits, exhausted, behind the two others,
\* which play on at one cursor position.
C19_Witness ==
  /\ pc = "waitKey" /\ total = 3
  /\ \E i, j, k \in Clips :
       /\ i # j /\ j # k /\ i # k
       /\ video_done[i] /\ cap_pos[i] < cap_pos[j]
       /\ ~video_done[j] /\ ~video_done[k]
       /\ cap_pos[j] = cap_pos[k] /\ frames[j] # Blank /\ frames[k] # Blank

\* ======================================================================
\* Properties of the grid
\* ======================================================================

FillerCells == {k \in 0..(rows * cols - 1) : k >= total}

\* C20: the folder holds at least one clip; cols is the least c with c * c
\* >= total; rows is the least r with r * cols >= total; every image on
\* screen has rows * cols cells, the first total of them video cells and the
\* rows * cols - total cells after them filler; a selection never holds the
\* index of a filler cell.
C20_GridGeometry ==
  /\ total >= 1
  /\ cols >= 1 /\ cols * cols >= total /\ (cols - 1) * (cols - 1) < total
  /\ rows >= 1 /\ rows * cols >= total /\ (rows - 1) * cols < total
  /\ Cardinality(FillerCells) = rows * cols - total
  /\ Cardinality(FillerCells) < cols
  /\ pc = "waitKey"
       => /\ DOMAIN final_img.cells = 0..(rows * cols - 1)
          /\ \A k \in 0..(rows * cols - 1) :
               final_img.cells[k] = IF k \in FillerCells THEN "filler" ELSE "video"
  /\ pending_classification # None
       => pending_classification[1].index \notin FillerCells

\* Seven clips in a grid of three rows of three: the image on screen has
\* nine cells, the last two filler, and the input step ended with no selection.
C20_Witness ==
  /\ total = 7 /\ rows = 3 /\ cols = 3
  /\ pc = "loop" /\ Len0(final_img.cells) = 9
  /\ final_img.cells[7] = "filler" /\ final_img.cells[8] = "filler"
  /\ pending_classification = None /\ click_coords = None
  /\ final_img.overlay = None

\* ======================================================================
\* Properties of the mapping on every position
\* ======================================================================

\* C21: a click resolved at any window position, positions left of the
\* window included, selects nothing or selects the clip whose tile holds the
\* position; the index of the selection is then one of 0..total-1 and the
\* name held is the name of the clip at that index, whose cell is the one
\* the next image highlights.
C21_MappingTotalOnAllPositions ==
  [][ClickConsumed
       => \/ pending_classification' = None
          \/ \E i \in Clips :
               /\ InTile(i, ClickX, ClickY)
               /\ pending_classification' = SelectionOfClip(i)
               /\ Highlighted(pending_classification', i)]_vars

\* ======================================================================
\* Properties of the downloader
\* ======================================================================

\* C22: download_from_s3 is never called for an s3 key that is in the log
\* file or in the set loaded from it; a failed download adds nothing to the
\* set or the file and the key can be fetched by a later call; an s3 key
\* enters the set only by being loaded from the file or by a download that
\* returned True, and enters the file only when it was downloaded or was in
\* the file; no step removes an s3 key from the file.
C22_LogDeduplicates ==
  [][/\ \A s3_key \in AllS3Keys : \A ok \in BOOLEAN :
          Fetch(s3_key, ok)
            => /\ s3_key \notin load_log(log_file)
               /\ s3_key \notin downloaded_log
               /\ ~ok => /\ s3_key \notin downloaded_log'
                         /\ log_file' = log_file
     /\ \A s3_key \in downloaded_log' \ downloaded_log :
          s3_key \in load_log(log_file) \/ Fetch(s3_key, TRUE)
     /\ load_log(log_file') \ load_log(log_file) \subseteq local_files
     /\ load_log(log_file) \subseteq load_log(log_file')
     /\ \A s3_key \in AllS3Keys :
          (dpc = "running" /\ todo # <<>> /\ Head(todo) = s3_key
             /\ s3_key \notin load_log(log_file) /\ s3_key \notin downloaded_log)
            => ENABLED Fetch(s3_key, TRUE)]_vars

\* A call is about to skip an s3 key that an earlier call downloaded and
\* saved, while another s3 key of the document is in no log and no folder.
C22_Witness ==
  /\ dpc = "running" /\ todo # <<>>
  /\ Head(todo) \in load_log(log_file) /\ Head(todo) \in downloaded_log
  /\ Cardinality(load_log(log_file)) >= 2
  /\ \E s3_key \in AllS3Keys : s3_key \notin local_files

====
